---- MODULE Spec2Model ----
(***************************************************************************)
(* A model of react-indexed-db: the process-wide configuration and         *)
(* initDB/useIndexedDB (src/src/indexed-hooks.ts), and openDatabase, the   *)
(* migration sequencer, CreateObjectStore and DBOperations                 *)
(* (src/src/indexed-db.ts), running against the host's IndexedDB factory.  *)
(* One action is one JavaScript job: an API call or one event handler      *)
(* together with the promise reactions it triggers.                        *)
(***************************************************************************)
EXTENDS Integers, Sequences, FiniteSets, TLC

VARIABLES
    config,     \* indexeddbConfiguration: [name, version]
    frozen,     \* whether Object.freeze(indexeddbConfiguration) has run
    dbs,        \* the host's databases by name: committed version and stores
    inits,      \* the initDB calls of this page, in call order
    handles,    \* the (dbName, version, currentStore) triples DBOperations was bound to
    lastUse,    \* the latest useIndexedDB call: whether it threw, and how far
                \* initialization had come when it was made
    ops         \* the per-store operation calls of this page, in call order

vars == <<config, frozen, dbs, inits, handles, lastUse, ops>>

-----------------------------------------------------------------------------
(* Bounds of the model. *)

MaxVersion == 3     \* the versions a caller asks for are 1..MaxVersion
MaxInits == 2       \* initDB calls per page
MaxOps == 1         \* per-store operation calls per page
MaxCalls == 2       \* per-store operation calls per page where records are followed

-----------------------------------------------------------------------------
(* Values. *)

NullName == "null"          \* indexeddbConfiguration.name before initDB
NullVersion == 0            \* indexeddbConfiguration.version before initDB (falsy)
Names == {"a", "b"}
Versions == 1..MaxVersion
DeclaredStores == {"s1", "s2"}
IndexNames == {"i1"}
NoError == "none"

\* The keys and the records of the stores.
Keys == {1, 2}
NoKey == 0                  \* no key given: key?: any left undefined
Values == {"x", "y"}
Absent == "absent"          \* undefined: what get gives for a missing key
NoRecords == [k \in Keys |-> Absent]

\* The store a hand-written migration for version v creates.
MigStore(v) == "m" \o ToString(v)

\* ObjectStoreMeta: the index descriptors are kept by name.
ObjectStoreMeta ==
    [store : DeclaredStores,
     storeConfig : [keyPath : {"id"}, autoIncrement : BOOLEAN],
     storeSchema : SUBSET IndexNames]

\* IDBMigration: `up' is one of four caller-written steps.
\*   "default": return defaultMigrationBehaviour(db, storeSchemas)
\*   "own":     create the store MigStore(toVersion) if missing, return true
\*   "fail":    create the store MigStore(toVersion) if missing, return false
\*   "none":    no up callback at all
UpKinds == {"default", "own", "fail", "none"}
IDBMigration == [toVersion : Versions, up : UpKinds]
NoMigrations == [given |-> FALSE, list |-> <<>>]
Given(list) == [given |-> TRUE, list |-> list]

\* A database that does not exist yet is the one open() would create: version 0.
NoDatabase == [version |-> 0, stores |-> {}]

-----------------------------------------------------------------------------
(* The host's object-store operations used by the migration code. *)

contains(database, name) == \E s \in database.stores : s.store = name

createObjectStore(database, name, storeConfig, indexes) ==
    [database EXCEPT !.stores = @ \cup
        {[store |-> name, keyPath |-> storeConfig.keyPath,
          autoIncrement |-> storeConfig.autoIncrement, indexes |-> indexes,
          records |-> NoRecords, gen |-> 1]}]

-----------------------------------------------------------------------------
(* defaultMigrationBehaviour: storeSchemas.forEach, creating what is missing. *)

RECURSIVE defaultMigrationFrom(_, _, _)
defaultMigrationFrom(database, storeSchemas, i) ==
    IF i > Len(storeSchemas) THEN database
    ELSE LET storeSchema == storeSchemas[i]
             next == IF ~contains(database, storeSchema.store)
                     THEN createObjectStore(database, storeSchema.store,
                              storeSchema.storeConfig, storeSchema.storeSchema)
                     ELSE database
         IN  defaultMigrationFrom(next, storeSchemas, i + 1)

\* A behaviour that creates every declared store anew.
defaultMigrationBehaviourReplacing(database, storeSchemas) ==
    defaultMigrationFrom(
        [database EXCEPT !.stores =
            {s \in @ : \A k \in 1..Len(storeSchemas) : storeSchemas[k].store # s.store}],
        storeSchemas, 1)

defaultMigrationBehaviour(database, storeSchemas) ==
    defaultMigrationFrom(database, storeSchemas, 1)

\* migration.up(database, storeSchemas, defaultMigrationBehaviour)
OwnStoreConfig == [keyPath |-> "id", autoIncrement |-> TRUE]

up(migration, database, storeSchemas) ==
    IF migration.up = "default"
    THEN [database |-> defaultMigrationBehaviour(database, storeSchemas),
          succeeded |-> TRUE]
    ELSE [database |-> IF contains(database, MigStore(migration.toVersion))
                       THEN database
                       ELSE createObjectStore(database, MigStore(migration.toVersion),
                                              OwnStoreConfig, {}),
          succeeded |-> migration.up = "own"]

-----------------------------------------------------------------------------
(* applyMigrations: the loop over nextVersion in oldVersion+1 .. newVersion. *)
(* The result carries the database as changed so far, the toVersions whose  *)
(* up step was invoked, in order, and the error thrown (NoError if none).   *)

\* migrations.find(x => x.toVersion === nextVersion): the first match, 0 if none.
find(migrations, nextVersion) ==
    LET hits == {i \in 1..Len(migrations) : migrations[i].toVersion = nextVersion}
    IN  IF hits = {} THEN 0 ELSE CHOOSE i \in hits : \A j \in hits : i <= j

\* A loop that starts at the stored version itself.
FirstVersionIsOld(oldVersion) == oldVersion

FirstVersion(oldVersion) == oldVersion + 1

\* A loop that goes on to the next version when no migration is listed.
RECURSIVE applyMigrationsSkippingGaps(_, _, _, _, _, _)
applyMigrationsSkippingGaps(nextVersion, newVersion, database, storeSchemas, migrations, log) ==
    IF ~(nextVersion < newVersion + 1)
    THEN [database |-> database, log |-> log, error |-> NoError]
    ELSE LET i == find(migrations, nextVersion) IN
         IF i = 0
         THEN applyMigrationsSkippingGaps(nextVersion + 1, newVersion, database,
                                          storeSchemas, migrations, log)
         ELSE IF migrations[i].up = "none"
         THEN [database |-> database, log |-> log, error |-> "NoUp"]
         ELSE LET r == up(migrations[i], database, storeSchemas)
                  log2 == Append(log, migrations[i].toVersion)
              IN  IF ~r.succeeded
                  THEN [database |-> r.database, log |-> log2,
                        error |-> "MigrationFailed"]
                  ELSE applyMigrationsSkippingGaps(nextVersion + 1, newVersion,
                           r.database, storeSchemas, migrations, log2)

RECURSIVE applyMigrationsFrom(_, _, _, _, _, _)
applyMigrationsFrom(nextVersion, newVersion, database, storeSchemas, migrations, log) ==
    IF ~(nextVersion < newVersion + 1)
    THEN [database |-> database, log |-> log, error |-> NoError]
    ELSE LET i == find(migrations, nextVersion) IN
         IF i = 0
         THEN [database |-> database, log |-> log, error |-> "NoMigration"]
         ELSE IF migrations[i].up = "none"
         THEN [database |-> database, log |-> log, error |-> "NoUp"]
         ELSE LET r == up(migrations[i], database, storeSchemas)
                  log2 == Append(log, migrations[i].toVersion)
              IN  IF ~r.succeeded
                  THEN [database |-> r.database, log |-> log2,
                        error |-> "MigrationFailed"]
                  ELSE applyMigrationsFrom(nextVersion + 1, newVersion, r.database,
                                           storeSchemas, migrations, log2)

\* A loop that starts at version 1 whatever the stored version is.
applyMigrationsFromScratch(oldVersion, newVersion, database, storeSchemas, migrations) ==
    applyMigrationsFrom(1, newVersion, database, storeSchemas, migrations, <<>>)

applyMigrations(oldVersion, newVersion, database, storeSchemas, migrations) ==
    applyMigrationsFrom(FirstVersion(oldVersion), newVersion, database,
                        storeSchemas, migrations, <<>>)

-----------------------------------------------------------------------------
(* Promises: resolve and reject act on a pending promise only. *)

Settle(call, outcome, reason) ==
    IF call.promise = "pending"
    THEN [call EXCEPT !.promise = outcome, !.reason = reason]
    ELSE call

resolve(call) == Settle(call, "resolved", NoError)
reject(call, reason) == Settle(call, "rejected", reason)

-----------------------------------------------------------------------------
(* The state after the modules are loaded: nothing configured, no call made. *)
(* The databases are the host's and outlive the page.                        *)

Init ==
    /\ config = [name |-> NullName, version |-> NullVersion]
    /\ frozen = FALSE
    /\ dbs = [n \in Names |-> NoDatabase]
    /\ inits = <<>>
    /\ handles = {}
    /\ lastUse = [called |-> FALSE, threw |-> FALSE, init |-> "never"]
    /\ ops = <<>>

\* An open request is served once the earlier requests on the same database
\* have delivered their final event.
Finished(req) == req \in {"none", "success", "error"}

InitsFinished(name) ==
    \A i \in 1..Len(inits) : inits[i].name = name => Finished(inits[i].req)

\* How far initialization has come on this page, as a caller sees it.
InitStatus ==
    IF inits = <<>> THEN "never"
    ELSE IF \E i \in 1..Len(inits) : inits[i].promise = "resolved" THEN "resolved"
    ELSE IF \E i \in 1..Len(inits) : inits[i].promise = "pending" THEN "pending"
    ELSE "rejected"

-----------------------------------------------------------------------------
(* initDB: the two assignments, Object.freeze, then CreateObjectStore, which *)
(* issues indexedDB.open(name, version).  The module is strict code, so an   *)
(* assignment to the frozen configuration throws a TypeError, which the      *)
(* async function turns into a rejected promise before anything is opened.   *)

InitCall(name, version, storeSchemas, migrations, req, promise, reason) ==
    [name |-> name, version |-> version,
     storeSchemas |-> storeSchemas, migrations |-> migrations,
     req |-> req, promise |-> promise, reason |-> reason,
     pre |-> dbs[name],         \* the database when initDB was called
     old |-> 0,                 \* event.oldVersion of the upgrade event
     log |-> <<>>,              \* toVersions whose up step was invoked
     utx |-> "none",            \* the upgrade (versionchange) transaction
     work |-> NoDatabase,       \* the database as the upgrade transaction sees it
     conn |-> "none"]           \* the connection of the open request

\* initDB without the Object.freeze call.
initDBWithoutFreeze(name, version, objectStoresMeta, migrations) ==
    /\ Len(inits) < MaxInits
    /\ config' = [name |-> name, version |-> version]
    /\ frozen' = FALSE
    /\ inits' = Append(inits,
           InitCall(name, version, objectStoresMeta, migrations,
                    "pending", "pending", NoError))
    /\ UNCHANGED <<dbs, handles, lastUse, ops>>

initDB(name, version, objectStoresMeta, migrations) ==
    /\ Len(inits) < MaxInits
    /\ IF frozen
       THEN /\ inits' = Append(inits,
                   InitCall(name, version, <<>>, NoMigrations,
                            "none", "rejected", "TypeError"))
            /\ UNCHANGED <<config, frozen>>
       ELSE /\ config' = [name |-> name, version |-> version]
            /\ frozen' = TRUE
            /\ inits' = Append(inits,
                   InitCall(name, version, objectStoresMeta, migrations,
                            "pending", "pending", NoError))
    /\ UNCHANGED <<dbs, handles, lastUse, ops>>

-----------------------------------------------------------------------------
(* The events of CreateObjectStore's open request. *)

\* request.onblocked: other connections (another page's) keep an existing
\* database open at a lower version; the request stays alive.
onblocked(i) ==
    /\ i \in 1..Len(inits)
    /\ inits[i].req = "pending"
    /\ dbs[inits[i].name].version >= 1
    /\ dbs[inits[i].name].version < inits[i].version
    /\ inits' = [inits EXCEPT ![i] = [reject(@, "Blocked") EXCEPT !.req = "blocked"]]
    /\ UNCHANGED <<config, frozen, dbs, handles, lastUse, ops>>

\* The body of request.onupgradeneeded, given the handler's call record,
\* the stored database and the outcome of the migration code.
UpgradeOutcome(call, stored) ==
    LET database == [stored EXCEPT !.version = call.version] IN
    IF call.migrations.given
    THEN applyMigrations(stored.version, call.version, database,
                         call.storeSchemas, call.migrations.list)
    ELSE [database |-> defaultMigrationBehaviour(database, call.storeSchemas),
          log |-> <<>>, error |-> NoError]

\* A catch block that rejects and leaves the transaction running.
UpgradeHandlerNoAbort(call, stored) ==
    LET r == UpgradeOutcome(call, stored) IN
    [(IF r.error = NoError THEN resolve(call) ELSE reject(call, r.error))
        EXCEPT !.req = "upgrading", !.old = stored.version, !.log = r.log,
               !.utx = "active", !.work = r.database, !.conn = "closing"]

UpgradeHandler(call, stored) ==
    LET r == UpgradeOutcome(call, stored) IN
    IF r.error = NoError
    THEN \* resolve(); database.close(): the close waits for the transaction
         [resolve(call) EXCEPT !.req = "upgrading", !.old = stored.version,
              !.log = r.log, !.utx = "active", !.work = r.database,
              !.conn = "closing"]
    ELSE \* reject(e); request.transaction.abort(); database.close()
         [reject(call, r.error) EXCEPT !.req = "finishing", !.old = stored.version,
              !.log = r.log, !.utx = "aborted", !.work = stored,
              !.conn = "closed"]

onupgradeneeded(i) ==
    /\ i \in 1..Len(inits)
    /\ inits[i].req \in {"pending", "blocked"}
    /\ dbs[inits[i].name].version < inits[i].version
    /\ inits' = [inits EXCEPT ![i] = UpgradeHandler(@, dbs[inits[i].name])]
    /\ UNCHANGED <<config, frozen, dbs, handles, lastUse, ops>>

\* The host commits the upgrade transaction once the handler has returned.
UpgradeCommit(i) ==
    /\ i \in 1..Len(inits)
    /\ inits[i].req = "upgrading"
    /\ inits[i].utx = "active"
    /\ dbs' = [dbs EXCEPT ![inits[i].name] = inits[i].work]
    /\ inits' = [inits EXCEPT ![i] =
                    [@ EXCEPT !.req = "finishing", !.utx = "committed",
                              !.conn = IF @ = "closing" THEN "closed" ELSE @]]
    /\ UNCHANGED <<config, frozen, handles, lastUse, ops>>

\* The host fails to commit it (quota, storage error): everything is rolled back.
UpgradeAbort(i) ==
    /\ i \in 1..Len(inits)
    /\ inits[i].req = "upgrading"
    /\ inits[i].utx = "active"
    /\ inits' = [inits EXCEPT ![i] =
                    [@ EXCEPT !.req = "finishing", !.utx = "aborted",
                              !.work = dbs[inits[i].name], !.conn = "closed"]]
    /\ UNCHANGED <<config, frozen, dbs, handles, lastUse, ops>>

\* request.onerror: the open fails outright (a host error, or the stored
\* version is higher than the requested one), or the request ends with an
\* AbortError because its upgrade transaction was aborted or its connection
\* was closed during the upgrade.
onerror(i) ==
    /\ i \in 1..Len(inits)
    /\ \/ inits[i].req \in {"pending", "blocked"}
       \/ /\ inits[i].req = "finishing"
          /\ inits[i].utx = "aborted" \/ inits[i].conn = "closed"
    /\ inits' = [inits EXCEPT ![i] = [reject(@, "OpenError") EXCEPT !.req = "error"]]
    /\ UNCHANGED <<config, frozen, dbs, handles, lastUse, ops>>

\* A success handler that resolves and keeps the connection.
onsuccessWithoutClose(i) ==
    /\ i \in 1..Len(inits)
    /\ \/ /\ inits[i].req = "pending"
          /\ dbs[inits[i].name].version = inits[i].version
       \/ /\ inits[i].req = "finishing"
          /\ inits[i].utx = "committed"
          /\ inits[i].conn = "open"
    /\ inits' = [inits EXCEPT ![i] =
                    [resolve(@) EXCEPT !.req = "success", !.conn = "open"]]
    /\ UNCHANGED <<config, frozen, dbs, handles, lastUse, ops>>

\* request.onsuccess: e.target.result.close(); resolve().
onsuccess(i) ==
    /\ i \in 1..Len(inits)
    /\ \/ /\ inits[i].req = "pending"
          /\ dbs[inits[i].name].version = inits[i].version
       \/ /\ inits[i].req = "finishing"
          /\ inits[i].utx = "committed"
          /\ inits[i].conn = "open"
    /\ inits' = [inits EXCEPT ![i] =
                    [resolve(@) EXCEPT !.req = "success", !.conn = "closed"]]
    /\ UNCHANGED <<config, frozen, dbs, handles, lastUse, ops>>

-----------------------------------------------------------------------------
(* useIndexedDB: the guard on the configuration, then DBOperations bound to *)
(* the configured name and version and the store named by the caller.       *)

\* A guard that waits for the promise of initDB instead.
ThrowsUntilResolved == InitStatus # "resolved"

\* No guard at all.
NeverThrows == FALSE

useIndexedDBThrows == config.name = NullName \/ config.version = NullVersion

useIndexedDB(objectStore) ==
    /\ lastUse' = [called |-> TRUE, threw |-> useIndexedDBThrows,
                   init |-> InitStatus]
    /\ handles' = IF useIndexedDBThrows THEN handles
                  ELSE handles \cup {[dbName |-> config.name,
                                      version |-> config.version,
                                      currentStore |-> objectStore]}
    /\ UNCHANGED <<config, frozen, dbs, inits, ops>>

-----------------------------------------------------------------------------
(* The host's operations on the records of one object store.  A store keeps *)
(* a record per key and the next key of its key generator.                  *)

objectStore(database, name) == CHOOSE s \in database.stores : s.store = name

WithStore(database, s) ==
    [database EXCEPT !.stores = {t \in @ : t.store # s.store} \cup {s}]

Present(s) == {k \in Keys : s.records[k] # Absent}

\* The key a record is stored under: the one given, else a generated one.
KeyFor(s, key) ==
    IF key # NoKey THEN key
    ELSE IF s.autoIncrement /\ s.gen \in Keys THEN s.gen
    ELSE NoKey

Stored(s, value, k) ==
    [s EXCEPT !.records[k] = value,
              !.gen = IF s.autoIncrement /\ k >= @ THEN k + 1 ELSE @]

\* store.put(value, key)
put(s, value, key) ==
    LET k == KeyFor(s, key) IN
    IF k = NoKey
    THEN [store |-> s, error |-> "ConstraintError", result |-> NoKey]
    ELSE [store |-> Stored(s, value, k), error |-> NoError, result |-> k]

\* store.add(value, key)
add(s, value, key) ==
    LET k == KeyFor(s, key) IN
    IF k = NoKey \/ s.records[k] # Absent
    THEN [store |-> s, error |-> "ConstraintError", result |-> NoKey]
    ELSE [store |-> Stored(s, value, k), error |-> NoError, result |-> k]

\* store.delete(key), store.clear(), store.get(id)
delete(s, key) == [s EXCEPT !.records[key] = Absent]
clear(s) == [s EXCEPT !.records = NoRecords]
get(s, key) == s.records[key]

\* store.getAll(): the records in key order.
RECURSIVE InKeyOrder(_, _)
InKeyOrder(s, keys) ==
    IF keys = {} THEN <<>>
    ELSE LET k == CHOOSE x \in keys : \A y \in keys : x <= y
         IN  <<s.records[k]>> \o InKeyOrder(s, keys \ {k})

getAll(s) == InKeyOrder(s, Present(s))

\* store.index(indexName).get(key): the first record that matches.
indexGet(s, key) == IF \E k \in Keys : s.records[k] = key THEN key ELSE Absent

\* The entry a cursor delivers after the key `last': NoKey at the end.
NextEntry(s, last) ==
    LET rest == {k \in Present(s) : k > last}
    IN  IF rest = {} THEN NoKey ELSE CHOOSE x \in rest : \A y \in rest : x <= y

-----------------------------------------------------------------------------
(* openDatabase and DBOperations: each operation returns a new promise and  *)
(* calls openDatabase(dbName, version) with no upgrade callback.            *)

ReadOps == {"getAll", "getByID", "getByIndex", "openCursor"}
WriteOps == {"add", "update", "deleteRecord", "clear"}
OpKinds == ReadOps \cup WriteOps

\* The operations whose callback starts with validateBeforeTransaction.
ValidatingOps == OpKinds \ {"add"}

\* Request handlers that resolve update on the success of its put.
ResolvingAlsoUpdate == OpKinds \ {"clear"}
\* Request handlers that resolve clear on the success of its request.
ResolvingAlsoClear == OpKinds \ {"update"}

\* The operations that put an onsuccess handler on their request.
RequestResolvingOps == OpKinds \ {"update", "clear"}
\* The operations that put an onerror handler on their request.
RequestRejectingOps == {"getAll", "add"}

\* One openDatabase call together with the operation that made it.
OpenCall(kind, dbName, version, store, indexName, key, value, advance, upgradeCallback) ==
    [kind |-> kind, name |-> dbName, version |-> version,
     store |-> store, index |-> indexName,
     key |-> key, value |-> value,
     advance |-> advance,    \* whether cursorCallback continues the cursor
     upgradeCallback |-> upgradeCallback,
     db |-> "undefined",     \* openDatabase's local variable db
     callbackDb |-> "notcalled",  \* the db upgradeCallback was given
     req |-> "pending",      \* openDatabase's open request
     promise |-> "pending", reason |-> NoError,
     tx |-> "none",          \* the operation's transaction
     request |-> "none",     \* the request on the store
     conn |-> "none",
     after |-> {k \in 1..Len(ops) : ops[k].promise = "resolved"},
                             \* the calls already resolved when this one is made
     result |-> Absent,      \* what getByID / getByIndex resolved with
     all |-> <<>>,           \* what getAll resolved with
     newKey |-> NoKey,       \* what add resolved with
     last |-> NoKey,         \* the key of the entry the cursor is at
     events |-> 0,           \* success events of the cursor request
     callbacks |-> 0,        \* invocations of cursorCallback
     wrote |-> FALSE,        \* whether the transaction has written
     undo |-> [records |-> NoRecords, gen |-> 1]]
                             \* the store as it was before it wrote

\* An operation of the set DBOperations(dbName, version, currentStore) returned.
Call(kind, h, indexName, key, value, advance) ==
    /\ h \in handles
    /\ ops' = Append(ops,
           OpenCall(kind, h.dbName, h.version, h.currentStore, indexName,
                    key, value, advance, FALSE))
    /\ UNCHANGED <<config, frozen, dbs, inits, handles, lastUse>>

OpCall(kind, h, indexName) ==
    /\ Len(ops) < MaxOps
    /\ Call(kind, h, indexName, CHOOSE k \in Keys : \A x \in Keys : k <= x,
            "x", FALSE)

\* openDatabase(dbName, version, upgradeCallback) called by the application.
openDatabase(dbName, version, upgradeCallback) ==
    /\ Len(ops) < MaxOps
    /\ ops' = Append(ops,
           OpenCall("openDatabase", dbName, version, "none", "none",
                    NoKey, "x", FALSE, upgradeCallback))
    /\ UNCHANGED <<config, frozen, dbs, inits, handles, lastUse>>

OpServed(j) ==
    /\ j \in 1..Len(ops)
    /\ ops[j].req = "pending"
    /\ InitsFinished(ops[j].name)
    /\ \A k \in 1..(j - 1) : ops[k].name = ops[j].name => Finished(ops[k].req)

\* openDatabase's request.onerror rejects openDatabase's promise.  An
\* operation chained only a fulfilment callback on it, so its own promise
\* is not touched.
openDatabase_onerror(j) ==
    /\ OpServed(j)
    /\ ops' = [ops EXCEPT ![j] =
                  [(IF @.kind = "openDatabase" THEN reject(@, "OpenError") ELSE @)
                      EXCEPT !.req = "error"]]
    /\ UNCHANGED <<config, frozen, dbs, inits, handles, lastUse>>

\* openDatabase's request.onupgradeneeded: upgradeCallback(event, db), with
\* db as it is at that moment.
openDatabase_onupgradeneeded(j) ==
    /\ OpServed(j)
    /\ ops[j].upgradeCallback
    /\ dbs[ops[j].name].version < ops[j].version
    /\ ops' = [ops EXCEPT ![j] =
                  [@ EXCEPT !.req = "upgrading", !.callbackDb = ops[j].db]]
    /\ UNCHANGED <<config, frozen, dbs, inits, handles, lastUse>>

\* validateBeforeTransaction(db, currentStore, reject)
validateBeforeTransaction(op, database) ==
    IF ~contains(database, op.store) THEN reject(op, "NoStore") ELSE op

\* createReadonlyTransaction / createReadwriteTransaction: db.transaction
\* throws for a store the database does not have; otherwise the transaction
\* is active and its events are wired to resolve and reject.
createTransaction(op, database) ==
    IF ~contains(database, op.store)
    THEN [op EXCEPT !.tx = "threw"]
    ELSE [op EXCEPT !.tx = "active"]

\* The request the operation issues on the store.  store.index(indexName)
\* throws for an index the store does not have, and add and put throw for a
\* record without a key on a store without a key generator.
IssueRequest(op, database) ==
    IF op.tx # "active" THEN op
    ELSE IF op.kind = "getByIndex"
            /\ op.index \notin objectStore(database, op.store).indexes
    THEN op
    ELSE IF op.kind \in {"add", "update"} /\ op.key = NoKey
            /\ ~objectStore(database, op.store).autoIncrement
    THEN op
    ELSE [op EXCEPT !.request = "pending"]

\* A callback that goes straight to the transaction.
NotValidated(op, database) == op

\* The callback given to openDatabase(...).then.
Validated(op, database) ==
    IF op.kind \in ValidatingOps THEN validateBeforeTransaction(op, database) ELSE op

ThenCallback(op, database) ==
    IssueRequest(createTransaction(Validated(op, database), database), database)

\* openDatabase's request.onsuccess: db = request.result; resolve(db), and
\* the operation's callback runs in the same job.  A requested version above
\* the stored one first runs an upgrade, which stores the version; without an
\* upgradeCallback nobody handles its event.
openDatabase_onsuccess(j) ==
    /\ j \in 1..Len(ops)
    /\ \/ /\ OpServed(j)
          /\ dbs[ops[j].name].version <= ops[j].version
          /\ ops[j].upgradeCallback => dbs[ops[j].name].version = ops[j].version
       \/ ops[j].req = "upgrading"
    /\ LET database == [dbs[ops[j].name] EXCEPT !.version = ops[j].version]
           opened == [ops[j] EXCEPT !.req = "success", !.conn = "open",
                                    !.db = "connection"]
       IN
       /\ dbs' = [dbs EXCEPT ![ops[j].name] = database]
       /\ ops' = [ops EXCEPT ![j] =
                     IF opened.kind = "openDatabase" THEN resolve(opened)
                     ELSE ThenCallback(opened, database)]
    /\ UNCHANGED <<config, frozen, inits, handles, lastUse>>

\* The host runs the transactions on one store in the order they were
\* created, a read-write one alone.
TxMayRun(j) ==
    \A k \in 1..(j - 1) :
        /\ ops[k].name = ops[j].name
        /\ ops[k].store = ops[j].store
        /\ ops[k].kind \in WriteOps \/ ops[j].kind \in WriteOps
        => ops[k].tx # "active"

\* What the host does for the operation's request on the store s, and what
\* the request's success handler is given.
Served(op, s) ==
    LET before == [op EXCEPT !.wrote = TRUE,
                             !.undo = [records |-> s.records, gen |-> s.gen]]
    IN
    CASE op.kind = "getAll" ->
            [store |-> s, error |-> NoError, op |-> [op EXCEPT !.all = getAll(s)]]
      [] op.kind = "getByID" ->
            [store |-> s, error |-> NoError,
             op |-> [op EXCEPT !.result = get(s, op.key)]]
      [] op.kind = "getByIndex" ->
            [store |-> s, error |-> NoError,
             op |-> [op EXCEPT !.result = indexGet(s, op.value)]]
      [] op.kind = "openCursor" ->
            [store |-> s, error |-> NoError,
             op |-> [op EXCEPT !.last = NextEntry(s, op.last),
                               !.events = @ + 1,
                               !.callbacks = @ + 1]]
      [] op.kind = "add" ->
            LET r == add(s, op.value, op.key) IN
            [store |-> r.store, error |-> r.error,
             op |-> [before EXCEPT !.newKey = r.result]]
      [] op.kind = "update" ->
            LET r == put(s, op.value, op.key) IN
            [store |-> r.store, error |-> r.error, op |-> before]
      [] op.kind = "deleteRecord" ->
            [store |-> delete(s, op.key), error |-> NoError, op |-> before]
      [] op.kind = "clear" ->
            [store |-> clear(s), error |-> NoError, op |-> before]

\* The cursor request fires again when cursorCallback continued a cursor
\* that was at an entry.
Continues(op) ==
    op.kind = "openCursor" /\ op.advance /\ op.last # NoKey

\* The request's success event: cursorCallback(event) for a cursor, then
\* resolve for the operations that resolve here.
request_onsuccess(j) ==
    /\ j \in 1..Len(ops)
    /\ ops[j].request = "pending"
    /\ TxMayRun(j)
    /\ LET s == objectStore(dbs[ops[j].name], ops[j].store)
           r == Served(ops[j], s)
       IN
       /\ r.error = NoError
       /\ dbs' = [dbs EXCEPT ![ops[j].name] = WithStore(@, r.store)]
       /\ ops' = [ops EXCEPT ![j] =
                     [(IF r.op.kind \in RequestResolvingOps
                       THEN resolve(r.op) ELSE r.op)
                        EXCEPT !.request = IF Continues(r.op)
                                           THEN "pending" ELSE "done"]]
    /\ UNCHANGED <<config, frozen, inits, handles, lastUse>>

\* createReadwriteTransaction wires the transaction's error and abort
\* events to reject.
transaction_onerror(op, reason) == reject(op, reason)

\* The request's error event (a key that exists, no key left to generate):
\* request.onerror where the operation set one, then the transaction's error
\* event, and the transaction aborts.
request_onerror(j) ==
    /\ j \in 1..Len(ops)
    /\ ops[j].request = "pending"
    /\ TxMayRun(j)
    /\ LET s == objectStore(dbs[ops[j].name], ops[j].store)
           r == Served(ops[j], s)
       IN
       /\ r.error # NoError
       /\ ops' = [ops EXCEPT ![j] =
                     [(IF r.op.kind \in RequestRejectingOps
                       THEN reject(r.op, r.error)
                       ELSE transaction_onerror(r.op, r.error))
                        EXCEPT !.request = "error", !.tx = "aborted"]]
    /\ UNCHANGED <<config, frozen, dbs, inits, handles, lastUse>>

\* The transaction's complete event, once it has no request left: what it
\* wrote is stored for good.
transaction_oncomplete(j) ==
    /\ j \in 1..Len(ops)
    /\ ops[j].tx = "active"
    /\ ops[j].request # "pending"
    /\ ops' = [ops EXCEPT ![j] = [resolve(@) EXCEPT !.tx = "complete"]]
    /\ UNCHANGED <<config, frozen, dbs, inits, handles, lastUse>>

\* The host fails to commit a transaction that has written (quota, storage
\* error): what it wrote is rolled back, and the abort event rejects.
transaction_onabort(j) ==
    /\ j \in 1..Len(ops)
    /\ ops[j].tx = "active"
    /\ ops[j].request = "done"
    /\ ops[j].wrote
    /\ dbs' = [dbs EXCEPT ![ops[j].name] =
                  WithStore(@, [objectStore(@, ops[j].store) EXCEPT
                                   !.records = ops[j].undo.records,
                                   !.gen = ops[j].undo.gen])]
    /\ ops' = [ops EXCEPT ![j] = [reject(@, "AbortError") EXCEPT !.tx = "aborted"]]
    /\ UNCHANGED <<config, frozen, inits, handles, lastUse>>

-----------------------------------------------------------------------------
(* The page is reloaded: the modules are loaded afresh, every connection    *)
(* and running transaction of the page is gone, the databases stay.         *)

Reload ==
    /\ inits # <<>> \/ ops # <<>>
    /\ config' = [name |-> NullName, version |-> NullVersion]
    /\ frozen' = FALSE
    /\ inits' = <<>>
    /\ handles' = {}
    /\ lastUse' = [called |-> FALSE, threw |-> FALSE, init |-> "never"]
    /\ ops' = <<>>
    /\ UNCHANGED dbs

-----------------------------------------------------------------------------------------------------------------------------------------------------
(* The inputs and the specifications. *)

Meta(store, autoIncrement, indexes) ==
    [store |-> store,
     storeConfig |-> [keyPath |-> "id", autoIncrement |-> autoIncrement],
     storeSchema |-> indexes]

OneStore == <<Meta("s1", TRUE, {"i1"})>>

\* The object store lists of up to two descriptors.
MetaLists ==
    {<<>>} \cup {<<m>> : m \in ObjectStoreMeta}
           \cup {<<m, n>> : m \in ObjectStoreMeta, n \in ObjectStoreMeta}

\* The migration lists with at most one migration per version, listed in
\* increasing order of toVersion.
RECURSIVE Ascending(_)
Ascending(v) ==
    IF v = 0 THEN {<<>>}
    ELSE Ascending(v - 1) \cup
         {Append(l, m) : l \in Ascending(v - 1),
                         m \in {x \in IDBMigration : x.toVersion = v}}

MigrationLists == {Given(l) : l \in Ascending(MaxVersion)}

Events ==
    \/ \E i \in 1..MaxInits : onblocked(i)
    \/ \E i \in 1..MaxInits : onupgradeneeded(i)
    \/ \E i \in 1..MaxInits : UpgradeCommit(i)
    \/ \E i \in 1..MaxInits : UpgradeAbort(i)
    \/ \E i \in 1..MaxInits : onerror(i)
    \/ \E i \in 1..MaxInits : onsuccess(i)

\* Initialization with migration lists.
NextMig ==
    \/ /\ ~frozen
       /\ \E version \in Versions, migrations \in MigrationLists :
              initDB("a", version, OneStore, migrations)
    \/ /\ frozen
       /\ \E version \in Versions : initDB("a", version, <<>>, NoMigrations)
    \/ Events
    \/ Reload

SpecMig == Init /\ [][NextMig]_vars

\* Initialization without migrations, over the store lists.
NextDef ==
    \/ /\ ~frozen
       /\ \E version \in Versions, objectStoresMeta \in MetaLists :
              initDB("a", version, objectStoresMeta, NoMigrations)
    \/ /\ frozen
       /\ \E version \in Versions : initDB("a", version, <<>>, NoMigrations)
    \/ Events
    \/ Reload

SpecDef == Init /\ [][NextDef]_vars

\* One page from its first initDB call on: the hook and every per-store
\* operation, against a database with the store "s1" declared.
FailingList == Given(<<[toVersion |-> 1, up |-> "fail"]>>)

OpEvents ==
    \/ \E j \in 1..MaxOps : openDatabase_onerror(j)
    \/ \E j \in 1..MaxOps : openDatabase_onsuccess(j)
    \/ \E j \in 1..MaxOps : request_onsuccess(j)
    \/ \E j \in 1..MaxOps : request_onerror(j)
    \/ \E j \in 1..MaxOps : transaction_oncomplete(j)
    \/ \E j \in 1..MaxOps : transaction_onabort(j)

Next ==
    \/ \E version \in Versions, migrations \in {NoMigrations, FailingList} :
           ~frozen /\ initDB("a", version, OneStore, migrations)
    \/ Events
    \/ \E store \in DeclaredStores : useIndexedDB(store)
    \/ \E kind \in OpKinds, h \in handles, indexName \in IndexNames :
           OpCall(kind, h, indexName)
    \/ OpEvents
    \/ Reload

Spec == Init /\ [][Next]_vars

\* Repeated initDB calls on one page, the hook and getAll on "s1".  The
\* first call of a page names the database "a"; the further calls give any
\* name and version.
NextCfg ==
    \/ /\ ~frozen
       /\ \E version \in Versions, migrations \in {NoMigrations, FailingList} :
              initDB("a", version, OneStore, migrations)
    \/ /\ frozen
       /\ \E name \in Names, version \in Versions :
              initDB(name, version, <<>>, NoMigrations)
    \/ Events
    \/ useIndexedDB("s1")
    \/ \E h \in handles, indexName \in IndexNames : OpCall("getAll", h, indexName)
    \/ \E j \in 1..MaxOps : openDatabase_onerror(j)
    \/ \E j \in 1..MaxOps : openDatabase_onsuccess(j)
    \/ \E j \in 1..MaxOps : request_onsuccess(j)
    \/ \E j \in 1..MaxOps : transaction_oncomplete(j)
    \/ Reload

SpecCfg == Init /\ [][NextCfg]_vars

\* A store as earlier pages have left it: its key generator is past the
\* highest key it holds.
StoredStore(name, indexes, records) ==
    LET present == {k \in Keys : records[k] # Absent} IN
    [store |-> name, keyPath |-> "id", autoIncrement |-> TRUE,
     indexes |-> indexes, records |-> records,
     gen |-> IF present = {} THEN 1
             ELSE 1 + (CHOOSE k \in present : \A x \in present : x <= k)]

\* The default behaviour on the databases earlier pages have left: any of
\* the declared stores may exist, with any indexes, empty or with a record.
OneRecord == {NoRecords} \cup
    {[k \in Keys |-> IF k = key THEN "x" ELSE Absent] : key \in Keys}

MaybeStore(name) ==
    {{}} \cup {{StoredStore(name, indexes, records)} :
                 indexes \in SUBSET IndexNames, records \in OneRecord}

StoredDatabases ==
    {[version |-> v, stores |-> S1 \cup S2] :
        v \in 1..(MaxVersion - 1), S1 \in MaybeStore("s1"), S2 \in MaybeStore("s2")}

InitDmb ==
    \E database \in StoredDatabases :
        /\ config = [name |-> NullName, version |-> NullVersion]
        /\ frozen = FALSE
        /\ dbs = [n \in Names |-> IF n = "a" THEN database ELSE NoDatabase]
        /\ inits = <<>>
        /\ handles = {}
        /\ lastUse = [called |-> FALSE, threw |-> FALSE, init |-> "never"]
        /\ ops = <<>>

NextDmb ==
    \/ /\ ~frozen
       /\ \E version \in Versions, objectStoresMeta \in MetaLists :
              initDB("a", version, objectStoresMeta, NoMigrations)
    \/ Events

SpecDmb == InitDmb /\ [][NextDmb]_vars

\* openDatabase called by the application itself, with and without an
\* upgrade callback.
NextOpen ==
    \/ \E dbName \in Names, version \in Versions, upgradeCallback \in BOOLEAN :
           openDatabase(dbName, version, upgradeCallback)
    \/ \E j \in 1..MaxOps : openDatabase_onupgradeneeded(j)
    \/ \E j \in 1..MaxOps : openDatabase_onsuccess(j)
    \/ \E j \in 1..MaxOps : openDatabase_onerror(j)
    \/ Reload

SpecOpen == Init /\ [][NextOpen]_vars

\* The records of one store.  The page starts initialized: initDB("a", 1,
\* OneStore) has found the database "a" at version 1 with the store "s1",
\* holding the records earlier pages left in it, and useIndexedDB("s1") has
\* been called.
DataStore(records) == StoredStore("s1", {"i1"}, records)

InitData ==
    \E records \in [Keys -> Values \cup {Absent}] :
        LET database == [version |-> 1, stores |-> {DataStore(records)}] IN
        /\ config = [name |-> "a", version |-> 1]
        /\ frozen = TRUE
        /\ dbs = [n \in Names |-> IF n = "a" THEN database ELSE NoDatabase]
        /\ inits = <<[name |-> "a", version |-> 1,
                      storeSchemas |-> OneStore, migrations |-> NoMigrations,
                      req |-> "success", promise |-> "resolved",
                      reason |-> NoError, pre |-> database, old |-> 0,
                      log |-> <<>>, utx |-> "none", work |-> NoDatabase,
                      conn |-> "closed"]>>
        /\ handles = {[dbName |-> "a", version |-> 1, currentStore |-> "s1"]}
        /\ lastUse = [called |-> TRUE, threw |-> FALSE, init |-> "resolved"]
        /\ ops = <<>>

NextData ==
    \/ \E h \in handles, key \in Keys, value \in Values :
           Len(ops) < MaxCalls /\ Call("update", h, "i1", key, value, FALSE)
    \/ \E h \in handles, key \in Keys \cup {NoKey}, value \in Values :
           Len(ops) < MaxCalls /\ Call("add", h, "i1", key, value, FALSE)
    \/ \E h \in handles, key \in Keys :
           Len(ops) < MaxCalls /\ Call("getByID", h, "i1", key, "x", FALSE)
    \/ \E h \in handles, key \in Keys :
           Len(ops) < MaxCalls /\ Call("deleteRecord", h, "i1", key, "x", FALSE)
    \/ \E h \in handles :
           Len(ops) < MaxCalls /\ Call("clear", h, "i1", NoKey, "x", FALSE)
    \/ \E h \in handles :
           Len(ops) < MaxCalls /\ Call("getAll", h, "i1", NoKey, "x", FALSE)
    \/ \E h \in handles, advance \in BOOLEAN :
           Len(ops) < MaxCalls /\ Call("openCursor", h, "i1", NoKey, "x", advance)
    \/ \E j \in 1..MaxCalls : openDatabase_onsuccess(j)
    \/ \E j \in 1..MaxCalls : request_onsuccess(j)
    \/ \E j \in 1..MaxCalls : request_onerror(j)
    \/ \E j \in 1..MaxCalls : transaction_oncomplete(j)
    \/ \E j \in 1..MaxCalls : transaction_onabort(j)

SpecData == InitData /\ [][NextData]_vars

-----------------------------------------------------------------------------
(* Vocabulary of the properties. *)

InitCalls == {inits[i] : i \in 1..Len(inits)}
OpCalls == {ops[j] : j \in 1..Len(ops)}
Steps(c) == {c.migrations.list[i] : i \in 1..Len(c.migrations.list)}
Invoked(c) == {c.log[k] : k \in 1..Len(c.log)}
UpTo(n) == [v \in 1..n |-> v]

\* The upgrade event of the call was delivered and its handler has run.
HandlerRan(c) == c.utx # "none"

\* The list holds one migration, with its up step, for each version 1..n.
Covers(c, n) ==
    \A v \in 1..n :
        /\ Cardinality({m \in Steps(c) : m.toVersion = v}) = 1
        /\ \A m \in Steps(c) : m.toVersion = v => m.up # "none"

\* Every up step for a version up to n returns true.
AllSucceed(c, n) ==
    \A m \in Steps(c) : m.toVersion <= n => m.up \in {"default", "own"}

\* initDB with a gapless list on a database that did not exist.
FreshRun(c) ==
    c.migrations.given /\ c.pre.version = 0 /\ Covers(c, c.version)

\* C1 as stated: for every migration list with one migration for each
\* version 1..N, initDB at version N on a database that does not exist yet
\* invokes the up step of every migration exactly once, in the order
\* 1, 2, ..., N, and initialization resolves.
C1_EveryGaplessListRuns ==
    \A c \in InitCalls :
        FreshRun(c) /\ HandlerRan(c) =>
            c.log = UpTo(c.version) /\ c.promise = "resolved"

\* C1 as amended: the same, for the lists whose up steps for 1..N all
\* return true.
C1_GaplessSucceedingListRuns ==
    \A c \in InitCalls :
        FreshRun(c) /\ AllSucceed(c, c.version) /\ HandlerRan(c) =>
            c.log = UpTo(c.version) /\ c.promise = "resolved"

C1_Witness ==
    \E c \in InitCalls :
        /\ FreshRun(c) /\ AllSucceed(c, c.version) /\ HandlerRan(c)
        /\ c.version >= 2
        /\ c.log = UpTo(c.version)
        /\ c.promise = "resolved"

\* Version v lies in (oldVersion, newVersion] and no migration is listed for it.
Missing(c, v) ==
    /\ v \in (c.old + 1)..c.version
    /\ \A m \in Steps(c) : m.toVersion # v

\* The stores the up step of m would add to the database the call found.
CreatedBy(c, m) ==
    IF m.up = "none" THEN {}
    ELSE {s.store : s \in up(m, c.pre, c.storeSchemas).database.stores}
             \ {s.store : s \in c.pre.stores}

LaterStores(c, v) ==
    UNION {CreatedBy(c, m) : m \in {x \in Steps(c) : x.toVersion > v}}

StoredNames(name) == {s.store : s \in dbs[name].stores}

ConfigurationErrors == {"NoMigration", "NoUp"}

NothingLaterThan(c, v) ==
    /\ \A w \in Invoked(c) : w < v
    /\ StoredNames(c.name) \cap LaterStores(c, v) = {}
    /\ {s.store : s \in c.work.stores} \cap LaterStores(c, v) = {}

\* C2 as stated: when no migration is listed for some version v in
\* (oldVersion, newVersion], initDB rejects with a configuration error, no up
\* step with toVersion > v is invoked, and no store of a later migration
\* exists in the database.
C2_GapRejectsWithConfigurationError ==
    \A c \in InitCalls : \A v \in Versions :
        c.migrations.given /\ HandlerRan(c) /\ Missing(c, v) =>
            /\ c.promise = "rejected"
            /\ c.reason \in ConfigurationErrors
            /\ NothingLaterThan(c, v)

\* C2 as amended: the promise is rejected, with a configuration error unless
\* a listed step for a version in (oldVersion, v) returned false (then with
\* that failure) or the open was first reported blocked (then with the
\* blocked event); nothing later than v is invoked or created.
C2_GapRejects ==
    \A c \in InitCalls : \A v \in Versions :
        c.migrations.given /\ HandlerRan(c) /\ Missing(c, v) =>
            /\ c.promise = "rejected"
            /\ \/ c.reason \in ConfigurationErrors
               \/ c.reason = "Blocked" /\ c.old >= 1
               \/ /\ c.reason = "MigrationFailed"
                  /\ \E m \in Steps(c) :
                        m.up = "fail" /\ m.toVersion > c.old /\ m.toVersion < v
            /\ NothingLaterThan(c, v)

C2_Witness ==
    \E c \in InitCalls : \E v \in Versions :
        /\ c.migrations.given /\ HandlerRan(c) /\ Missing(c, v)
        /\ \E m \in Steps(c) : m.toVersion > v /\ m.toVersion <= c.version
                                /\ m.up = "own"
        /\ \E m \in Steps(c) : m.toVersion < v /\ m.toVersion > c.old
        /\ c.reason = "NoMigration"
        /\ c.req = "error"

\* C3: when the up step for version v returns false, no migration for a
\* version above v is invoked, the upgrade transaction is aborted, and the
\* promise of initDB is rejected, in that state and in every later one.
ReturnedFalse(c, v) ==
    v \in Invoked(c) /\ \E m \in Steps(c) : m.toVersion = v /\ m.up = "fail"

C3_FailedStepAborts ==
    \A c \in InitCalls : \A v \in Versions :
        ReturnedFalse(c, v) =>
            /\ \A w \in Invoked(c) : w <= v
            /\ c.utx = "aborted"
            /\ c.promise = "rejected"
            /\ dbs[c.name] = c.pre

C3_Witness ==
    \E c \in InitCalls : \E v \in Versions :
        /\ ReturnedFalse(c, v)
        /\ Len(c.log) >= 2
        /\ \E m \in Steps(c) : m.toVersion > v /\ m.toVersion <= c.version
        /\ c.req = "error"
        /\ c.promise = "rejected"

\* The database holds the declared stores and nothing else, each store once,
\* with the key configuration and the indexes of a descriptor of that name.
DeclaredExactly(c) ==
    LET declared == {c.storeSchemas[k] : k \in 1..Len(c.storeSchemas)} IN
    /\ StoredNames(c.name) = {m.store : m \in declared}
    /\ Cardinality(dbs[c.name].stores) = Cardinality(StoredNames(c.name))
    /\ \A s \in dbs[c.name].stores : \E m \in declared :
           /\ m.store = s.store
           /\ m.storeSchema = s.indexes
           /\ m.storeConfig.keyPath = s.keyPath
           /\ m.storeConfig.autoIncrement = s.autoIncrement

\* C4 as stated: with no migrations, initDB on a fresh database leaves exactly
\* the declared stores with their declared indexes (once its upgrade is
\* committed), and an initDB call that finds the database at the requested
\* version starts no upgrade, changes nothing and, unless the open request
\* itself fails, resolves.
C4_ReinitializingResolves ==
    \A c \in InitCalls :
        ~c.migrations.given =>
            /\ c.pre.version = 0 /\ c.utx = "committed" => DeclaredExactly(c)
            /\ c.pre.version = c.version =>
                  /\ c.utx = "none"
                  /\ dbs[c.name] = c.pre
                  /\ Finished(c.req) /\ c.req # "error" => c.promise = "resolved"

\* C5 as stated: whenever the promise of initDB is resolved and an upgrade
\* was started, the upgrade transaction has committed.
C5_ResolvedOnlyAfterCommit ==
    \A c \in InitCalls :
        c.promise = "resolved" /\ HandlerRan(c) => c.utx = "committed"

\* C6 as stated: useIndexedDB throws whenever initialization has not
\* completed: before any initDB call, while the promise of initDB is pending,
\* and after it was rejected.
C6_ThrowsUntilInitCompletes ==
    lastUse.called /\ lastUse.init # "resolved" => lastUse.threw

\* C6 as amended: useIndexedDB throws exactly when no initDB call has been
\* made on the page; after an initDB call it returns the operations, whether
\* the promise of initDB is pending, rejected or resolved.
C6_ThrowsUntilInitCalled ==
    lastUse.called => (lastUse.threw <=> lastUse.init = "never")

C6_Witness ==
    /\ lastUse.called /\ ~lastUse.threw /\ lastUse.init = "rejected"
    /\ handles # {}

\* C7: if initDB has never been called, useIndexedDB throws, no operations
\* are handed out and no open request is issued.
C7_NoUseBeforeInit ==
    /\ lastUse.called /\ lastUse.init = "never" => lastUse.threw
    /\ inits = <<>> => handles = {} /\ ops = <<>>

C7_Witness ==
    inits = <<>> /\ lastUse.called /\ lastUse.threw /\ lastUse.init = "never"

\* C8: after the first initDB call the configured name and version stay
\* those of the first call, whatever further initDB calls are made, and every
\* operation handed out or called uses them.
C8_ConfigurationIsWriteOnce ==
    inits # <<>> =>
        /\ config = [name |-> inits[1].name, version |-> inits[1].version]
        /\ \A h \in handles :
               h.dbName = inits[1].name /\ h.version = inits[1].version
        /\ \A op \in OpCalls :
               op.name = inits[1].name /\ op.version = inits[1].version

C8_Witness ==
    /\ Len(inits) >= 2
    /\ inits[2].name # inits[1].name
    /\ inits[2].version # inits[1].version
    /\ lastUse.called /\ lastUse.init = "rejected"
    /\ \E op \in OpCalls : op.req = "success"

\* C9 as stated: an operation whose open request failed has its promise
\* rejected.  (Nothing happens to the operation after the error event, so
\* the state with the event delivered is its final one.)
C9_OpenFailureRejects ==
    \A op \in OpCalls : op.req = "error" => op.promise = "rejected"

\* C10: a read operation on a store the opened database does not have is
\* rejected, and neither a transaction nor a request exists for it.
C10_MissingStoreRejectsRead ==
    \A op \in OpCalls :
        /\ op.kind \in ReadOps
        /\ op.req = "success"
        /\ ~contains(dbs[op.name], op.store)
        => /\ op.promise = "rejected"
           /\ op.reason = "NoStore"
           /\ op.tx \notin {"active", "complete"}
           /\ op.request = "none"

C10_Witness ==
    \E op \in OpCalls :
        /\ op.kind = "openCursor"
        /\ op.req = "success"
        /\ ~contains(dbs[op.name], op.store)
        /\ dbs[op.name].stores # {}
        /\ op.promise = "rejected"

\* The versions k+1, ..., n in order.
Interval(k, n) == [i \in 1..(n - k) |-> k + i]

\* The upgrade handler ran with a migration list on a database stored at
\* version k >= 1.
Upgraded(c) == c.migrations.given /\ HandlerRan(c) /\ c.old >= 1

\* C16 as stated: when a database stored at version k is initialized at
\* version N > k with a migration list, the up steps invoked are exactly
\* those for k+1, ..., N, once each, in increasing order.
C16_ExactlyNewerMigrationsRun ==
    \A c \in InitCalls :
        Upgraded(c) => c.log = Interval(c.old, c.version)

\* The list holds one migration with an up step that returns true for each
\* version in k+1..N.
NewerSucceed(c) ==
    \A v \in (c.old + 1)..c.version :
        /\ Cardinality({m \in Steps(c) : m.toVersion = v}) = 1
        /\ \A m \in Steps(c) : m.toVersion = v => m.up \in {"default", "own"}

\* C16 as amended: the up steps invoked are those for k+1, ..., n in
\* increasing order, once each, for some n <= N, so no migration with
\* toVersion <= k is invoked; n = N when the list holds a migration whose up
\* step returns true for each version in k+1..N, whatever it holds for the
\* versions <= k.
C16_NewerMigrationsRunInOrder ==
    \A c \in InitCalls :
        Upgraded(c) =>
            /\ \E n \in c.old..c.version : c.log = Interval(c.old, n)
            /\ NewerSucceed(c) => c.log = Interval(c.old, c.version)

C16_Witness ==
    \E c \in InitCalls :
        /\ Upgraded(c) /\ NewerSucceed(c)
        /\ c.version >= c.old + 2
        /\ \A m \in Steps(c) : m.toVersion > c.old
        /\ c.log = Interval(c.old, c.version)
        /\ c.utx = "committed"

\* C18 as stated: an initDB call whose promise is rejected never has its
\* upgrade committed.
C18_RejectedInitCommitsNothing ==
    \A c \in InitCalls : c.promise = "rejected" => c.utx # "committed"

\* The schema of a database: its version, and the name, key configuration
\* and indexes of each store.
SchemaOf(database) ==
    [version |-> database.version,
     stores |-> {[store |-> s.store, keyPath |-> s.keyPath,
                  autoIncrement |-> s.autoIncrement, indexes |-> s.indexes] :
                     s \in database.stores}]

Schema == [n \in Names |-> SchemaOf(dbs[n])]

\* C19 as stated: no event of a per-store operation changes the stored
\* version or the stores and indexes of a database.
C19_OperationsKeepSchema ==
    [][OpEvents => Schema' = Schema]_vars

\* C20: once the open request of an initDB call has delivered an upgrade
\* event the connection is closed or closing (close called by the handler),
\* after a success event it is closed, and once the request has delivered
\* its last event no connection of the call is open; also when the open was
\* first reported blocked and when a migration failed.
C20_CreationClosesItsConnection ==
    \A c \in InitCalls :
        /\ HandlerRan(c) => c.conn \in {"closing", "closed"}
        /\ c.req = "success" => c.conn = "closed"
        /\ Finished(c.req) /\ (HandlerRan(c) \/ c.req = "success") => c.conn = "closed"

C20_Witness ==
    \E c \in InitCalls :
        /\ HandlerRan(c)
        /\ c.reason = "Blocked"
        /\ c.utx = "aborted"
        /\ c.log # <<>>
        /\ Finished(c.req)
        /\ c.conn = "closed"

Ops == 1..Len(ops)

\* No operation called between the calls i and g writes to the store.
NoWriteBetween(i, g) ==
    \A j \in Ops : i < j /\ j < g => ops[j].kind \notin WriteOps

\* The call g is a getByID of the key k that was made after the call i had
\* resolved, with no write in between, and its request has succeeded.
ReadsAfter(g, i, k) ==
    /\ ops[g].kind = "getByID"
    /\ i \in ops[g].after
    /\ ops[g].key = k
    /\ ops[g].request = "done"
    /\ NoWriteBetween(i, g)

Records(op) == objectStore(dbs[op.name], op.store).records

\* C11: an update with a key is resolved only once its transaction has
\* completed; once it has, and while no later call writes, the store holds
\* the value under the key, whether the key was missing or held another
\* value; and a getByID of the key made after the resolution gets the value.
C11_UpdatePutsAndResolvesAtCompletion ==
    \A i \in Ops :
        ops[i].kind = "update" /\ ops[i].key # NoKey =>
            /\ ops[i].promise = "resolved" => ops[i].tx = "complete"
            /\ ops[i].tx = "complete" /\ NoWriteBetween(i, Len(ops) + 1)
                  => Records(ops[i])[ops[i].key] = ops[i].value
            /\ \A g \in Ops :
                  ReadsAfter(g, i, ops[i].key) => ops[g].result = ops[i].value

C11_Witness ==
    \E i \in Ops : \E g \in Ops :
        /\ ops[i].kind = "update"
        /\ ops[i].undo.records[ops[i].key] \notin {Absent, ops[i].value}
        /\ ops[i].tx = "complete"
        /\ ReadsAfter(g, i, ops[i].key)
        /\ ops[g].result = ops[i].value
        /\ ops[g].promise = "resolved"

\* The add call i found its explicit key in the store.
Duplicate(i) ==
    /\ ops[i].kind = "add"
    /\ ops[i].key # NoKey
    /\ ops[i].wrote
    /\ ops[i].undo.records[ops[i].key] # Absent

\* C12 as stated: an add with an explicit key that exists is rejected and
\* leaves the record as it was; an add without a key that has resolved was
\* given a key, and a getByID of that key made after the resolution gets the
\* record added.
C12_AddedRecordIsReadBack ==
    \A i \in Ops :
        /\ Duplicate(i) =>
              /\ ops[i].promise = "rejected"
              /\ NoWriteBetween(i, Len(ops) + 1) =>
                    Records(ops[i])[ops[i].key] = ops[i].undo.records[ops[i].key]
        /\ ops[i].kind = "add" /\ ops[i].key = NoKey /\ ops[i].promise = "resolved" =>
              /\ ops[i].newKey \in Keys
              /\ \A g \in Ops :
                    ReadsAfter(g, i, ops[i].newKey) => ops[g].result = ops[i].value

\* C13 as stated: the upgrade callback given to openDatabase is called while
\* the promise of openDatabase is pending, with the connection to the
\* database being upgraded.
C13_UpgradeCallbackGetsTheHandle ==
    \A op \in OpCalls :
        /\ op.req = "upgrading" => op.promise = "pending"
        /\ op.callbackDb # "notcalled" => op.callbackDb = "connection"

\* The cursor request of the call will fire again with an entry not yet
\* visited.
EntriesLeft(op) ==
    /\ op.request = "pending"
    /\ op.events >= 1
    /\ NextEntry(objectStore(dbs[op.name], op.store), op.last) # NoKey

\* C14 as stated: cursorCallback has been called once per success event of
\* the cursor request, and the promise of openCursor is not resolved while
\* the cursor has entries left to deliver.
C14_CursorResolvesAtEndOfTraversal ==
    \A op \in OpCalls :
        op.kind = "openCursor" =>
            /\ op.callbacks = op.events
            /\ op.promise = "resolved" => ~EntriesLeft(op)

\* The call g is a getAll made after the call i had resolved, with no add
\* or update in between, and its request has succeeded.
ReadsAllAfter(g, i) ==
    /\ ops[g].kind = "getAll"
    /\ i \in ops[g].after
    /\ ops[g].request = "done"
    /\ \A j \in Ops : i < j /\ j < g => ops[j].kind \notin {"add", "update"}

\* C15: clear is resolved only once its transaction has completed, and a
\* getAll made after the resolution, with no add or update in between,
\* gets the empty sequence.
C15_ClearThenGetAllIsEmpty ==
    \A i \in Ops :
        ops[i].kind = "clear" =>
            /\ ops[i].promise = "resolved" => ops[i].tx = "complete"
            /\ \A g \in Ops : ReadsAllAfter(g, i) => ops[g].all = <<>>

C15_Witness ==
    \E i \in Ops : \E g \in Ops :
        /\ ops[i].kind = "clear"
        /\ Cardinality({k \in Keys : ops[i].undo.records[k] # Absent}) >= 2
        /\ ops[i].tx = "complete"
        /\ ReadsAllAfter(g, i)
        /\ ops[g].all = <<>>
        /\ ops[g].promise = "resolved"

\* The first descriptor of the list that declares the store.
FirstDeclared(c, name) ==
    c.storeSchemas[CHOOSE k \in 1..Len(c.storeSchemas) :
        /\ c.storeSchemas[k].store = name
        /\ \A j \in 1..(k - 1) : c.storeSchemas[j].store # name]

DeclaredNames(c) == {c.storeSchemas[k].store : k \in 1..Len(c.storeSchemas)}

\* The default behaviour has run in the upgrade of the call.
DefaultRan(c) == ~c.migrations.given /\ c.utx \in {"active", "committed"}

\* C17: after the default behaviour the stores are those present before and
\* the declared ones that were missing, one store per name; a store that
\* existed is exactly as it was (key configuration, indexes, records); a new
\* store has the key configuration and the indexes of its descriptor and no
\* record; and running the behaviour again changes nothing.
C17_DefaultBehaviourOnlyAdds ==
    \A c \in InitCalls :
        DefaultRan(c) =>
            /\ {s.store : s \in c.work.stores} =
                  {s.store : s \in c.pre.stores} \cup DeclaredNames(c)
            /\ Cardinality(c.work.stores) =
                  Cardinality({s.store : s \in c.work.stores})
            /\ c.pre.stores \subseteq c.work.stores
            /\ \A s \in c.work.stores \ c.pre.stores :
                  LET m == FirstDeclared(c, s.store) IN
                  /\ s.keyPath = m.storeConfig.keyPath
                  /\ s.autoIncrement = m.storeConfig.autoIncrement
                  /\ s.indexes = m.storeSchema
                  /\ s.records = NoRecords
            /\ defaultMigrationBehaviour(c.work, c.storeSchemas) = c.work

C17_Witness ==
    \E c \in InitCalls :
        /\ DefaultRan(c)
        /\ c.utx = "committed"
        /\ dbs[c.name] = c.work
        /\ \E s \in c.pre.stores :
              /\ s.store \in DeclaredNames(c)
              /\ s.indexes # FirstDeclared(c, s.store).storeSchema
              /\ s.records # NoRecords
        /\ \E s \in c.work.stores \ c.pre.stores : s.indexes # {}

====
